---- MODULE Spec2Model ----
(***************************************************************************)
(* Huntarr acquisition-cycle engine: the Radarr quality-upgrade cycle      *)
(* (src/primary/apps/radarr/upgrade.py) together with the services it      *)
(* calls: the dedup store (stateful_manager), the hourly cap               *)
(* (stats_manager), the Radarr adapter and the stop signal.                *)
(*                                                                         *)
(* Time is counted in whole hours.  One clock hour is one cap bucket.      *)
(***************************************************************************)
EXTENDS Integers, Sequences, FiniteSets, TLC

\* ------------------------------------------------------------------ bounds
MaxTime == 3
MaxBatch == 2
HourlyLimit == 2
MaxResets == 2
MaxStatsTime == 3
MaxRefreshes == 2

\* --------------------------------------------------------- program constants
HoursPerDay == 24
DefaultRetention == 2

\* ------------------------------------------------------------- configuration
Instances == {"A", "B"}
Budgeted == {"m1", "m2"}
Ids == {1, 2}
RetentionChoices == {1, 2}

\* ---------------------------------------------------------------- candidates
Missing == [kind |-> "missing", at |-> 0]
Empty == [kind |-> "empty", at |-> 0]
Junk == [kind |-> "junk", at |-> 0]
Iso(t) == [kind |-> "iso", at |-> t]

Movie(i, rd) == [id |-> i, releaseDate |-> rd]

\* release dates met in a batch fetched at hour t: five, three and one day
\* old, released this very hour, due in one hour, due in ten days, and the
\* three shapes without a usable date
\* released five days before hour 0
Old == Iso(0 - 5 * HoursPerDay)

\* release dates a page fetched at hour t can carry: five days and one day
\* old, released this very hour, due in one hour, and the three shapes
\* without a usable date
DatesAt(t) ==
    {Iso(t - 5 * HoursPerDay), Iso(t - HoursPerDay), Iso(t), Iso(t + 1),
     Missing, Empty, Junk}

SeqsUpTo(S, n) == UNION {[1..k -> S] : k \in 0..n}

\* a page of candidates; nothing makes the ids of a page distinct
Batches(ids, dates) == SeqsUpTo({Movie(i, rd) : i \in ids, rd \in dates}, MaxBatch)

Settings(hunts, skips, nodates, delays) ==
    [hunt_upgrade_movies : hunts, skip_future_releases : skips,
     process_no_release_dates : nodates, release_date_delay_days : delays,
     tag_processed_items : {TRUE}, has_instance_name : {TRUE},
     api_url : {"http://radarr:7878"}, api_key : {"key"}]

\* the same settings without the keys "instance_name" and "name"
Unnamed(settingsChoices) ==
    {[s EXCEPT !.has_instance_name = FALSE] : s \in settingsChoices}

NoSettings ==
    [hunt_upgrade_movies |-> 0, skip_future_releases |-> TRUE,
     process_no_release_dates |-> FALSE, release_date_delay_days |-> 0,
     tag_processed_items |-> TRUE, has_instance_name |-> TRUE,
     api_url |-> "http://radarr:7878", api_key |-> "key"]

\* the same settings with an address or a key that is empty or blank
Malformed(settingsChoices) ==
    UNION {{[s EXCEPT !.api_url = u, !.api_key = k] :
                u \in {s.api_url, "", " "}, k \in {s.api_key, ""}} :
           s \in settingsChoices}
    \ settingsChoices

\* str.strip() on the values above
strip(str) == IF str = " " THEN "" ELSE str

\* lines 79-80: the address and the key the cycle passes to every call of
\* radarr_api
api_url(settings) == strip(settings.api_url)

api_key(settings) == strip(settings.api_key)

\* lines 91-92: the key of the instance in the dedup store and the history:
\* its "instance_name" (here the name of the instance itself), and without
\* one the fallback "Radarr Default"
instance_name(w, settings) ==
    IF settings.has_instance_name THEN w ELSE "Radarr Default"

VARIABLES
    now,                    \* the clock, in hours
    processed,              \* dedup store: set of ProcessedRecord
    retention,              \* TTL in hours given to new records
    hourly_caps,            \* [hourBucket, count]: the one counter kept
    pc,                     \* per instance: where its worker is in the cycle
    app_settings,           \* per instance: settings snapshot of the cycle
    fetched,                \* per instance: the page the adapter returned
    upgrade_eligible_data,  \* per instance: the page, then what the date filters left of it
    unprocessed_movies,     \* per instance: what the dedup filter left
    movies_to_process,      \* per instance: the sampled work list
    trail,                  \* per instance: one entry per Act call of the cycle
    exit_reason,            \* per instance: why the item loop ended
    result,                 \* per instance: what the last cycle returned
    cycle_start,            \* per instance: clock, cap count at selection
    racer,                  \* per budget-counting caller: between check and increment?
    cap_check_failed,       \* a cap check failed in the current bucket
    cycle_status,           \* per app: run-state of its worker, Idle or Running
    reset_requests,         \* per app: a manual reset request is pending
    reset_count,            \* per app: reset requests stored, resets performed,
                            \* and the dedup records present at the last reset
    reset_response,         \* what the last call of the reset endpoint saw and answered
    stats_time,             \* the clock of the statistics cache, in cache durations
    stats_cache,            \* _stats_cache: [data, timestamp]
    stats_refreshes,        \* background threads running _update_stats_cache
    stats_request,          \* per request handler: its phase, what it read, its answer
    general_settings,       \* the general settings as saved
    general_request         \* the last POST /api/settings/general and its answer

vars == <<now, processed, retention, hourly_caps, pc, app_settings, fetched,
          upgrade_eligible_data, unprocessed_movies, movies_to_process, trail,
          exit_reason, result, cycle_start, racer, cap_check_failed,
          cycle_status, reset_requests, reset_count, reset_response,
          stats_time, stats_cache, stats_refreshes, stats_request,
          general_settings, general_request>>

\* the cycle tracker and the reset endpoint
resetVars == <<cycle_status, reset_requests, reset_count, reset_response>>

statsVars == <<stats_time, stats_cache, stats_refreshes, stats_request>>

generalVars == <<general_settings, general_request>>

\* the acquisition cycle, its stores and its clock
cycleVars == <<now, processed, retention, hourly_caps, pc, app_settings, fetched,
               upgrade_eligible_data, unprocessed_movies, movies_to_process, trail,
               exit_reason, result, cycle_start, racer, cap_check_failed>>

workerVars == <<pc, app_settings, fetched, upgrade_eligible_data, unprocessed_movies,
                movies_to_process, trail, exit_reason, result, cycle_start>>

\* ------------------------------------------------------------------ parse_date
parse_date(s) ==
    IF s.kind = "iso" THEN [ok |-> TRUE, at |-> s.at] ELSE [ok |-> FALSE, at |-> 0]

\* Python truthiness of movie.get('releaseDate')
HasReleaseDate(movie) == movie.releaseDate.kind \notin {"missing", "empty"}

\* ------------------------------------------------------------------ DedupStore
RecordsOf(store, inst, id) == {r \in store : r.inst = inst /\ r.id = id}

IsRecorded(store, inst, id, t) ==
    \E r \in RecordsOf(store, inst, id) : t < r.expiresAt

\* a query that fails answers "not processed"
is_processed(store, inst, id, t, ok) == ok /\ IsRecorded(store, inst, id, t)

\* faulty variant: marking an id again adds a second record
add_processed_id_Duplicates(store, inst, id, t, ttl, ok) ==
    IF ok
    THEN store \cup {[inst |-> inst, id |-> id, processedAt |-> t, expiresAt |-> t + ttl]}
    ELSE store

add_processed_id(store, inst, id, t, ttl, ok) ==
    IF ok
    THEN (store \ RecordsOf(store, inst, id))
            \cup {[inst |-> inst, id |-> id, processedAt |-> t, expiresAt |-> t + ttl]}
    ELSE store

Expired(store, t) == {r \in store : r.expiresAt <= t}

RecordsOfInstance(store, inst) == {r \in store : r.inst = inst}

\* ------------------------------------------------------------ AdmissionController
CurrentBucket(t) == t

NoCounter == [hourBucket |-> -1, count |-> 0]

\* a counter of another bucket is stale: the current bucket then counts 0
CapCount(caps, t) ==
    IF caps.hourBucket = CurrentBucket(t) THEN caps.count ELSE 0

check_hourly_cap_exceeded(caps, t) == CapCount(caps, t) >= HourlyLimit

increment_hourly_cap(caps, t) ==
    [hourBucket |-> CurrentBucket(t), count |-> CapCount(caps, t) + 1]

\* ------------------------------------------------------------- SelectionEngine
\* the elements of data at the positions in S, in order
Pick(data, S) ==
    LET F[i \in 0..Len(data)] ==
            IF i = 0 THEN <<>>
            ELSE IF i \in S THEN Append(F[i - 1], data[i]) ELSE F[i - 1]
    IN F[Len(data)]

\* faulty variant: the search is still delayed at release date + delay itself
should_delay_movie_search_Inclusive(release_date_str, delay_days, t) ==
    IF delay_days <= 0 THEN FALSE
    ELSE IF release_date_str.kind \in {"missing", "empty"} THEN FALSE
    ELSE LET release_date == parse_date(release_date_str)
         IN IF ~release_date.ok THEN FALSE
            ELSE t <= release_date.at + delay_days * HoursPerDay

\* lines 22-55; t is datetime.now(utc) of the call
should_delay_movie_search(release_date_str, delay_days, t) ==
    IF delay_days <= 0 THEN FALSE
    ELSE IF release_date_str.kind \in {"missing", "empty"} THEN FALSE
    ELSE LET release_date == parse_date(release_date_str)
         IN IF ~release_date.ok THEN FALSE
            ELSE t < release_date.at + delay_days * HoursPerDay

\* faulty variant: the comparison with now is left out of the loop body
KeptByFutureFilter_KeepsFuture(movie, settings, t) ==
    IF HasReleaseDate(movie) /\ parse_date(movie.releaseDate).ok
    THEN TRUE
    ELSE settings.process_no_release_dates

\* faulty variant: a movie released at this very moment counts as future
KeptByFutureFilter_DropsNow(movie, settings, t) ==
    IF HasReleaseDate(movie)
    THEN LET release_date == parse_date(movie.releaseDate)
         IN IF release_date.ok
            THEN ~(release_date.at >= t)
            ELSE settings.process_no_release_dates
    ELSE settings.process_no_release_dates

\* the body of the loop over the batch inside "if skip_future_releases"
KeptByFutureFilter(movie, settings, t) ==
    IF HasReleaseDate(movie)
    THEN LET release_date == parse_date(movie.releaseDate)
         IN IF release_date.ok
            THEN ~(release_date.at > t)
            ELSE settings.process_no_release_dates
    ELSE settings.process_no_release_dates

FilterFutureReleases(data, settings, t) ==
    IF settings.skip_future_releases
    THEN Pick(data, {i \in 1..Len(data) : KeptByFutureFilter(data[i], settings, t)})
    ELSE data

FilterReleaseDateDelay(data, settings, t) ==
    IF settings.release_date_delay_days > 0
    THEN Pick(data, {i \in 1..Len(data) :
                ~should_delay_movie_search(data[i].releaseDate,
                                           settings.release_date_delay_days, t)})
    ELSE data

\* the batch after the release-date stages
EligibleData(data, settings, t) ==
    FilterReleaseDateDelay(FilterFutureReleases(data, settings, t), settings, t)

\* faulty variant: the already-processed filter keeps every movie
UnprocessedMovies_NoFilter(data, inst, store, t, failed) == data

\* faulty variant: a movie whose is_processed query failed is left out
UnprocessedMovies_FailedDropped(data, inst, store, t, failed) ==
    Pick(data, {i \in 1..Len(data) :
                  i \notin failed /\ ~is_processed(store, inst, data[i].id, t, TRUE)})

\* failed: the positions whose is_processed query hits a storage error
UnprocessedMovies(data, inst, store, t, failed) ==
    Pick(data, {i \in 1..Len(data) :
                  ~is_processed(store, inst, data[i].id, t, i \notin failed)})

Min(a, b) == IF a < b THEN a ELSE b

Injections(k, n) ==
    {p \in [1..k -> 1..n] : \A i, j \in 1..k : i # j => p[i] # p[j]}

\* random.sample(population, k) for 0 <= k <= len(population)
random_sample(population, k) ==
    {[i \in 1..k |-> population[p[i]]] : p \in Injections(k, Len(population))}

\* faulty variant: the cycle takes every unprocessed movie
SampleSize_WholePool(settings, unprocessed) ==
    IF settings.hunt_upgrade_movies < 0 THEN settings.hunt_upgrade_movies
    ELSE Len(unprocessed)

\* faulty variant: the cycle never takes more than one movie
SampleSize_One(settings, unprocessed) ==
    Min(Min(settings.hunt_upgrade_movies, 1), Len(unprocessed))

SampleSize(settings, unprocessed) ==
    Min(settings.hunt_upgrade_movies, Len(unprocessed))


\* ------------------------------------------------------------------- one cycle
\* faulty variant: only a search whose id was stored counts
processed_something_OnlyMarked(entries) ==
    \E i \in 1..Len(entries) : entries[i].marked

\* lines 202, 251, 258: set once a search was accepted
processed_something(entries) == \E i \in 1..Len(entries) : entries[i].accepted

processed_count(entries) ==
    Cardinality({i \in 1..Len(entries) : entries[i].accepted})

Bool(b) == IF b THEN "true" ELSE "false"

Return(w, value, why) ==
    /\ pc' = [pc EXCEPT ![w] = "returned"]
    /\ result' = [result EXCEPT ![w] = value]
    /\ exit_reason' = [exit_reason EXCEPT ![w] = why]

\* what is noted of a cycle: the clock and the cap count at its selection,
\* whether its fetch failed, whether an is_processed query failed (and, when
\* the cycle is tracked, at which positions of the eligible list)
NoStart ==
    [at |-> 0, count |-> 0, failed |-> FALSE, fetchFailed |-> FALSE, failedAt |-> {}]

\* radarr_api.get_cutoff_unmet_movies_random_page: a call that fails hands
\* back None, which holds no movie
FetchResult(batch, ok) == IF ok THEN batch ELSE <<>>

\* faulty variant: only the empty list counts as "no candidates"
NoCandidates_EmptyListOnly(page, fetchFailed) == ~fetchFailed /\ page = <<>>

\* line 100: "if not upgrade_eligible_data", true of None and of the empty list
NoCandidates(page, fetchFailed) == fetchFailed \/ page = <<>>

\* the ways the call of the adapter can go: it answers with one of the
\* pages, or it fails
FetchCalls(batches) ==
    {[ok |-> TRUE, batch |-> b] : b \in batches} \cup {[ok |-> FALSE, batch |-> <<>>]}

\* lines 71-98: read the settings, ask the adapter for a page of candidates
Fetch(w, settingsChoices, batches) ==
    /\ pc[w] \in {"idle", "returned"}
    /\ \E settings \in settingsChoices, call \in FetchCalls(batches) :
        LET page == FetchResult(call.batch, call.ok)
        IN /\ app_settings' = [app_settings EXCEPT ![w] = settings]
           /\ fetched' = [fetched EXCEPT ![w] = page]
           /\ upgrade_eligible_data' = [upgrade_eligible_data EXCEPT ![w] = page]
           /\ cycle_start' = [cycle_start EXCEPT
                                 ![w] = [NoStart EXCEPT !.fetchFailed = ~call.ok]]
    /\ pc' = [pc EXCEPT ![w] = "fetched"]
    /\ unprocessed_movies' = [unprocessed_movies EXCEPT ![w] = <<>>]
    /\ movies_to_process' = [movies_to_process EXCEPT ![w] = <<>>]
    /\ trail' = [trail EXCEPT ![w] = <<>>]
    /\ exit_reason' = [exit_reason EXCEPT ![w] = "none"]
    /\ result' = [result EXCEPT ![w] = "none"]
    /\ UNCHANGED <<now, processed, retention, hourly_caps, racer, cap_check_failed,
                   resetVars, statsVars, generalVars>>

\* lines 100-202: filter the batch, drop the processed ids, sample the work list.
\* queriesFail: whether is_processed queries may hit a storage error;
\* track: whether the positions of the failed queries are noted
SelectTracked(w, queriesFail, track) ==
    /\ pc[w] = "fetched"
    /\ LET settings == app_settings[w]
           eligible == EligibleData(upgrade_eligible_data[w], settings, now)
           started == [cycle_start[w] EXCEPT !.at = now,
                                             !.count = CapCount(hourly_caps, now)]
       IN IF NoCandidates(fetched[w], cycle_start[w].fetchFailed)
          THEN /\ Return(w, "false", "nothing")
               /\ cycle_start' = [cycle_start EXCEPT ![w] = started]
               /\ UNCHANGED <<upgrade_eligible_data, unprocessed_movies, movies_to_process>>
          ELSE IF cycle_start[w].fetchFailed
          THEN \* line 104: len(None)
               /\ Return(w, "raised", "TypeError")
               /\ cycle_start' = [cycle_start EXCEPT ![w] = started]
               /\ UNCHANGED <<upgrade_eligible_data, unprocessed_movies, movies_to_process>>
          ELSE
          /\ upgrade_eligible_data' = [upgrade_eligible_data EXCEPT ![w] = eligible]
          /\ \E failed \in (IF queriesFail THEN SUBSET (1..Len(eligible)) ELSE {{}}) :
              LET unprocessed == UnprocessedMovies(eligible, instance_name(w, settings), processed,
                                                    now, failed)
                  k == SampleSize(settings, unprocessed)
              IN /\ unprocessed_movies' = [unprocessed_movies EXCEPT ![w] = unprocessed]
                 /\ cycle_start' = [cycle_start EXCEPT
                        ![w] = [started EXCEPT
                                  !.failed = failed # {},
                                  !.failedAt = IF track THEN failed ELSE {}]]
                 /\ IF unprocessed = <<>>
                    THEN /\ Return(w, "false", "nothing")
                         /\ UNCHANGED movies_to_process
                    ELSE IF k < 0
                    THEN /\ Return(w, "raised", "ValueError")
                         /\ UNCHANGED movies_to_process
                    ELSE \E sample \in random_sample(unprocessed, k) :
                         /\ movies_to_process' = [movies_to_process EXCEPT ![w] = sample]
                         /\ IF sample = <<>>
                            THEN Return(w, "false", "end")
                            ELSE /\ pc' = [pc EXCEPT ![w] = "loop"]
                                 /\ UNCHANGED <<result, exit_reason>>
    /\ UNCHANGED <<now, processed, retention, hourly_caps, app_settings, fetched,
                   trail, racer, cap_check_failed, resetVars, statsVars, generalVars>>

Select(w, queriesFail) == SelectTracked(w, queriesFail, FALSE)

\* faulty variant: the stat increment and the history entry are made for
\* every search, accepted or not
Entry_CountsEveryAttempt(movie, stop, capOk, accepted, markOk, tagging, tagOk) ==
    [id |-> movie.id, stop |-> stop, capOk |-> capOk, accepted |-> accepted,
     marked |-> accepted /\ markOk, counted |-> TRUE,
     tagged |-> accepted /\ tagging /\ tagOk,
     tagFailed |-> accepted /\ tagging /\ ~tagOk, logged |-> TRUE]

\* faulty variant: the history entry is written before the search is known
\* to be accepted
Entry_LogsEverySearch(movie, stop, capOk, accepted, markOk, tagging, tagOk) ==
    [id |-> movie.id, stop |-> stop, capOk |-> capOk, accepted |-> accepted,
     marked |-> accepted /\ markOk, counted |-> accepted,
     tagged |-> accepted /\ tagging /\ tagOk,
     tagFailed |-> accepted /\ tagging /\ ~tagOk, logged |-> TRUE]

\* faulty variant: a tag call that raises ends the pass before the history
\* entry
Entry_FailedTagSkipsHistory(movie, stop, capOk, accepted, markOk, tagging, tagOk) ==
    [id |-> movie.id, stop |-> stop, capOk |-> capOk, accepted |-> accepted,
     marked |-> accepted /\ markOk, counted |-> accepted,
     tagged |-> accepted /\ tagging /\ tagOk,
     tagFailed |-> accepted /\ tagging /\ ~tagOk,
     logged |-> accepted /\ (tagging => tagOk)]

\* what one pass of the item loop that reached the Act call leaves behind;
\* tagOk: tag_processed_movie did not raise (lines 239-243)
Entry(movie, stop, capOk, accepted, markOk, tagging, tagOk) ==
    [id |-> movie.id, stop |-> stop, capOk |-> capOk, accepted |-> accepted,
     marked |-> accepted /\ markOk, counted |-> accepted,
     tagged |-> accepted /\ tagging /\ tagOk,
     tagFailed |-> accepted /\ tagging /\ ~tagOk, logged |-> accepted]

\* faulty variant: the pass never looks at the hourly cap
LoopExit_IgnoresCap(stop, capOk, caps, t) ==
    IF stop THEN "stop" ELSE "none"

\* faulty variant: the pass never looks at stop_check()
LoopExit_IgnoresStop(stop, capOk, caps, t) ==
    IF capOk /\ check_hourly_cap_exceeded(caps, t) THEN "cap" ELSE "none"

\* faulty variant: a cap check that raises ends the loop like a reached cap
LoopExit_FailedCheckStops(stop, capOk, caps, t) ==
    IF stop THEN "stop"
    ELSE IF ~capOk \/ check_hourly_cap_exceeded(caps, t) THEN "cap"
    ELSE "none"

\* faulty variant: the count of a past hour still stops the loop
LoopExit_StaleCount(stop, capOk, caps, t) ==
    IF stop THEN "stop"
    ELSE IF capOk /\ caps.count >= HourlyLimit THEN "cap"
    ELSE "none"

\* lines 205-216: how a pass leaves the loop before the Act call, if it does;
\* a cap check that raises is logged and the pass goes on
LoopExit(stop, capOk, caps, t) ==
    IF stop THEN "stop"
    ELSE IF capOk /\ check_hourly_cap_exceeded(caps, t) THEN "cap"
    ELSE "none"

\* faulty variant: an accepted search is counted against the hourly cap
CapsAfterSearch_Counting(caps, t, accepted) ==
    IF accepted THEN increment_hourly_cap(caps, t) ELSE caps

\* lines 230-233: the hourly counter after the search of a pass; the one
\* stats call there is increment_stat_only, which leaves the counter alone
CapsAfterSearch(caps, t, accepted) == caps

\* lines 204-253: one pass of "for movie in movies_to_process".
\* stop: what stop_check() answers; capOk: the cap check did not raise;
\* accepted: what movie_search answers; markOk: add_processed_id stored the id;
\* tagOk: tag_processed_movie did not raise
ProcessMovieTagged(w, stops, capOks, markOks, tagOks) ==
    /\ pc[w] = "loop"
    /\ \E stop \in stops, capOk \in capOks, accepted \in BOOLEAN, markOk \in markOks,
          tagOk \in tagOks :
        LET i == Len(trail[w]) + 1
            movie == movies_to_process[w][i]
            entry == Entry(movie, stop, capOk, accepted, markOk,
                           app_settings[w].tag_processed_items, tagOk)
            entries == Append(trail[w], entry)
            exit == LoopExit(stop, capOk, hourly_caps, now)
        IN IF exit # "none"
           THEN /\ Return(w, Bool(processed_something(trail[w])), exit)
                /\ UNCHANGED <<trail, processed, hourly_caps, cap_check_failed>>
           ELSE /\ trail' = [trail EXCEPT ![w] = entries]
                /\ cap_check_failed' = (cap_check_failed \/ ~capOk)
                /\ hourly_caps' = CapsAfterSearch(hourly_caps, now, accepted)
                /\ processed' = IF accepted
                                THEN add_processed_id(processed, instance_name(w, app_settings[w]),
                                                      movie.id, now,
                                                      retention, markOk)
                                ELSE processed
                /\ IF i = Len(movies_to_process[w])
                   THEN Return(w, Bool(processed_something(entries)), "end")
                   ELSE UNCHANGED <<pc, result, exit_reason>>
    /\ UNCHANGED <<now, retention, app_settings, fetched, upgrade_eligible_data,
                   unprocessed_movies, movies_to_process, cycle_start, racer, resetVars, statsVars, generalVars>>

ProcessMovie(w, stops, capOks, markOks) ==
    ProcessMovieTagged(w, stops, capOks, markOks, {TRUE})

\* ------------------------------------------------- budget-counting callers
MaxCount == HourlyLimit + Cardinality(Budgeted) + 1

\* faulty variant: the caller goes ahead without asking CheckExceeded
BudgetedCheck_Unchecked(r, oks) ==
    /\ racer[r] = "idle"
    /\ CapCount(hourly_caps, now) < MaxCount
    /\ racer' = [racer EXCEPT ![r] = "acting"]
    /\ UNCHANGED <<now, processed, retention, hourly_caps, cap_check_failed, workerVars,
                   resetVars, statsVars, generalVars>>

\* CheckExceeded before an outbound action; a failed check counts as not exceeded
BudgetedCheck(r, oks) ==
    /\ racer[r] = "idle"
    /\ \E ok \in oks :
        /\ ok => ~check_hourly_cap_exceeded(hourly_caps, now)
        /\ ~ok => CapCount(hourly_caps, now) < MaxCount
        /\ cap_check_failed' = (cap_check_failed \/ ~ok)
    /\ racer' = [racer EXCEPT ![r] = "acting"]
    /\ UNCHANGED <<now, processed, retention, hourly_caps, workerVars, resetVars, statsVars, generalVars>>

\* the outbound action, and Increment when it was accepted
BudgetedAct(r) ==
    /\ racer[r] = "acting"
    /\ \E accepted \in BOOLEAN :
        hourly_caps' = IF accepted THEN increment_hourly_cap(hourly_caps, now)
                       ELSE hourly_caps
    /\ racer' = [racer EXCEPT ![r] = "idle"]
    /\ UNCHANGED <<now, processed, retention, cap_check_failed, workerVars, resetVars, statsVars, generalVars>>

\* ------------------------------------------------------------- environment
Tick ==
    /\ now < MaxTime
    /\ now' = now + 1
    /\ cap_check_failed' = FALSE
    /\ UNCHANGED <<processed, retention, hourly_caps, racer, workerVars, resetVars, statsVars, generalVars>>

SweepExpired ==
    /\ Expired(processed, now) # {}
    /\ processed' = processed \ Expired(processed, now)
    /\ UNCHANGED <<now, retention, hourly_caps, racer, cap_check_failed, workerVars,
                   resetVars, statsVars, generalVars>>

\* faulty variant: the expiry of every stored record is recomputed from the
\* new retention
update_lock_expiration_Retroactive(hours) ==
    /\ retention' = hours
    /\ processed' = {[r EXCEPT !.expiresAt = r.processedAt + hours] : r \in processed}

\* SetRetention of the dedup store: the retention given to the records made
\* from now on; the stored records stay as they are
update_lock_expiration(hours) ==
    /\ retention' = hours
    /\ processed' = processed

\* web_server.py 639-649: a positive stateful_management_hours in the saved
\* general settings is handed to the dedup store
SetRetention ==
    /\ \E hours \in RetentionChoices \ {retention} : update_lock_expiration(hours)
    /\ UNCHANGED <<now, hourly_caps, racer, cap_check_failed, workerVars, resetVars, statsVars, generalVars>>

\* ------------------------------------------- cycle tracker and reset endpoint
\* web_server.py 1070: the app names the reset endpoint accepts
ValidApps == {"sonarr", "radarr", "lidarr", "readarr", "whisparr", "eros", "swaparr"}

\* the names callers put in the URL: a standard app, the optional app, and a
\* name the endpoint does not know
RequestedApps == {"radarr", "swaparr", "huntarr"}

\* the apps whose worker is running cycles
Workers == {"radarr", "swaparr"}

NoResponse ==
    [app |-> "none", configured |-> FALSE, enabled |-> FALSE, stored |-> FALSE,
     status |-> 0]

\* faulty variant: swaparr is let through without a look at its settings
ResetAllowed_SwaparrUnchecked(app_name, configured_apps, swaparr_enabled) ==
    IF app_name \notin ValidApps THEN FALSE
    ELSE IF app_name = "swaparr" THEN TRUE
    ELSE app_name \in configured_apps

\* web_server.py 1070-1093: the checks before the request is handed to the
\* database; swaparr is asked for its "enabled" setting, every other app for
\* its membership in get_configured_apps()
ResetAllowed(app_name, configured_apps, swaparr_enabled) ==
    IF app_name \notin ValidApps THEN FALSE
    ELSE IF app_name = "swaparr" THEN swaparr_enabled
    ELSE app_name \in configured_apps

\* db.create_reset_request: sets the pending flag of the app, or fails
create_reset_request(requests, app_name, ok) ==
    IF ok THEN [requests EXCEPT ![app_name] = TRUE] ELSE requests

\* web_server.py 1071-1119: the HTTP status of the answer
StatusCode(allowed, success) ==
    IF ~allowed THEN 400 ELSE IF success THEN 200 ELSE 500

\* faulty variant: the endpoint stores a request only while the worker of
\* the app is between two cycles
reset_app_cycle_OnlyWhenIdle ==
    /\ \E app_name \in RequestedApps, configured_apps \in SUBSET {"radarr", "swaparr"},
          swaparr_enabled \in BOOLEAN, dbOk \in BOOLEAN :
        LET allowed == ResetAllowed(app_name, configured_apps, swaparr_enabled)
            success == allowed /\ dbOk /\ cycle_status[app_name] = "Idle"
        IN /\ success => reset_count[app_name].stored < MaxResets
           /\ reset_requests' = IF success
                                 THEN create_reset_request(reset_requests, app_name, TRUE)
                                 ELSE reset_requests
           /\ reset_count' = IF success
                              THEN [reset_count EXCEPT ![app_name].stored = @ + 1]
                              ELSE reset_count
           /\ reset_response' = [app |-> app_name,
                                  configured |-> app_name \in configured_apps,
                                  enabled |-> swaparr_enabled, stored |-> success,
                                  status |-> StatusCode(allowed, success)]
    /\ UNCHANGED <<cycle_status, cycleVars, statsVars, generalVars>>

\* faulty variant: a stored reset request also wipes the dedup records
reset_app_cycle_ClearsRecords ==
    /\ \E app_name \in RequestedApps, configured_apps \in SUBSET {"radarr", "swaparr"},
          swaparr_enabled \in BOOLEAN, dbOk \in BOOLEAN :
        LET allowed == ResetAllowed(app_name, configured_apps, swaparr_enabled)
            success == allowed /\ dbOk
        IN /\ success => reset_count[app_name].stored < MaxResets
           /\ reset_requests' = IF allowed
                                 THEN create_reset_request(reset_requests, app_name, dbOk)
                                 ELSE reset_requests
           /\ reset_count' = IF success
                              THEN [reset_count EXCEPT ![app_name].stored = @ + 1]
                              ELSE reset_count
           /\ reset_response' = [app |-> app_name,
                                  configured |-> app_name \in configured_apps,
                                  enabled |-> swaparr_enabled, stored |-> success,
                                  status |-> StatusCode(allowed, success)]
           /\ processed' = IF success THEN {} ELSE processed
    /\ UNCHANGED <<cycle_status, now, retention, hourly_caps, pc, app_settings, fetched,
                   upgrade_eligible_data, unprocessed_movies, movies_to_process, trail,
                   exit_reason, result, cycle_start, racer, cap_check_failed, statsVars, generalVars>>

\* web_server.py 1054-1119: POST /api/cycle/reset/<app_name>.
\* dbOk: create_reset_request answered true (false: it answered false or raised)
reset_app_cycle ==
    /\ \E app_name \in RequestedApps, configured_apps \in SUBSET {"radarr", "swaparr"},
          swaparr_enabled \in BOOLEAN, dbOk \in BOOLEAN :
        LET allowed == ResetAllowed(app_name, configured_apps, swaparr_enabled)
            success == allowed /\ dbOk
        IN /\ success => reset_count[app_name].stored < MaxResets
           /\ reset_requests' = IF allowed
                                 THEN create_reset_request(reset_requests, app_name, dbOk)
                                 ELSE reset_requests
           /\ reset_count' = IF success
                              THEN [reset_count EXCEPT ![app_name].stored = @ + 1]
                              ELSE reset_count
           /\ reset_response' =
                 [app |-> app_name, configured |-> app_name \in configured_apps,
                  enabled |-> swaparr_enabled, stored |-> success,
                  status |-> StatusCode(allowed, success)]
    /\ UNCHANGED <<cycle_status, cycleVars, statsVars, generalVars>>

\* the worker starts a cycle: Idle -> Running; a pending reset request is
\* consumed here (the flag is cleared, nothing else is reset)
BeginCycle(a) ==
    /\ cycle_status[a] = "Idle"
    /\ cycle_status' = [cycle_status EXCEPT ![a] = "Running"]
    /\ reset_requests' = [reset_requests EXCEPT ![a] = FALSE]
    /\ reset_count' = IF reset_requests[a]
                       THEN [reset_count EXCEPT ![a].performed = @ + 1,
                                                ![a].recordsAtReset = processed]
                       ELSE reset_count
    /\ UNCHANGED <<reset_response, cycleVars, statsVars, generalVars>>

\* the worker ends its cycle: Running -> Idle
EndCycle(a) ==
    /\ cycle_status[a] = "Running"
    /\ cycle_status' = [cycle_status EXCEPT ![a] = "Idle"]
    /\ UNCHANGED <<reset_requests, reset_count, reset_response, cycleVars, statsVars, generalVars>>

ResetInit ==
    /\ cycle_status = [a \in ValidApps |-> "Idle"]
    /\ reset_requests = [a \in ValidApps |-> FALSE]
    /\ reset_count = [a \in ValidApps |-> [stored |-> 0, performed |-> 0, recordsAtReset |-> {}]]
    /\ reset_response = NoResponse

\* ------------------------------------------- prowlarr statistics cache
\* prowlarr_routes.py 19-23: 'cache_duration': 300 seconds; the clock of the
\* cache counts in units of 300 seconds
CacheDuration == 1

\* the threads of the web server that answer GET /stats
Handlers == {"r1", "r2"}

\* 'data': None
NoStats == -1

\* a handler between two requests, with the answer it gave last
NoRequest ==
    [phase |-> "idle", current_time |-> 0, cached_data |-> NoStats,
     status |-> 0, stats |-> NoStats, cache_age |-> 0]

\* _fetch_detailed_stats: the statistics as they are at the time of the
\* fetch, or None when the fetch fails
fetch_detailed_stats(t, ok) == IF ok THEN t ELSE NoStats

\* faulty variant: data exactly cache_duration old counts as expired
CacheExpired_AtDuration(cache, current_time) ==
    cache.data = NoStats \/ current_time - cache.timestamp >= CacheDuration

\* lines 419-420: the cache is empty or older than cache_duration
CacheExpired(cache, current_time) ==
    cache.data = NoStats \/ current_time - cache.timestamp > CacheDuration

\* lines 421-432: a request that finds the cache expired starts a
\* background update when the cache holds data
StartsRefresh(cache, current_time) ==
    CacheExpired(cache, current_time) /\ cache.data # NoStats

\* lines 415-435: the part of get_prowlarr_stats under _cache_lock.
\* fetchOk: the first, synchronous fetch gave statistics
StatsLocked(r) ==
    /\ stats_request[r].phase = "idle"
    /\ \E fetchOk \in BOOLEAN :
        LET current_time == stats_time
            initial_stats == fetch_detailed_stats(current_time, fetchOk)
            cache == IF stats_cache.data = NoStats /\ initial_stats # NoStats
                     THEN [data |-> initial_stats, timestamp |-> current_time]
                     ELSE stats_cache
        IN /\ StartsRefresh(stats_cache, current_time) => stats_refreshes < MaxRefreshes
           /\ stats_cache' = cache
           /\ stats_refreshes' = IF StartsRefresh(stats_cache, current_time)
                                  THEN stats_refreshes + 1
                                  ELSE stats_refreshes
           /\ stats_request' = [stats_request EXCEPT
                                  ![r] = [@ EXCEPT !.phase = "unlocked",
                                                   !.current_time = current_time,
                                                   !.cached_data = cache.data]]
    /\ UNCHANGED <<stats_time, cycleVars, resetVars, generalVars>>

\* lines 437-449: the answer, built after the lock was released
StatsAnswer(r) ==
    /\ stats_request[r].phase = "unlocked"
    /\ LET q == stats_request[r]
       IN stats_request' = [stats_request EXCEPT ![r] =
            IF q.cached_data # NoStats
            THEN [q EXCEPT !.phase = "idle", !.status = 200, !.stats = q.cached_data,
                           !.cache_age = q.current_time - stats_cache.timestamp]
            ELSE [q EXCEPT !.phase = "idle", !.status = 503, !.stats = NoStats,
                           !.cache_age = 0]]
    /\ UNCHANGED <<stats_time, stats_cache, stats_refreshes, cycleVars, resetVars, generalVars>>

\* faulty variant: a background fetch that fails still moves the timestamp
update_stats_cache_StampsFailure ==
    /\ stats_refreshes > 0
    /\ \E ok \in BOOLEAN :
        LET new_stats == fetch_detailed_stats(stats_time, ok)
        IN stats_cache' = IF new_stats # NoStats
                          THEN [data |-> new_stats, timestamp |-> stats_time]
                          ELSE [stats_cache EXCEPT !.timestamp = stats_time]
    /\ stats_refreshes' = stats_refreshes - 1
    /\ UNCHANGED <<stats_time, stats_request, cycleVars, resetVars, generalVars>>

\* lines 391-407: a background thread ends: it has fetched, and under the
\* lock it stores what it got, if it got something
update_stats_cache ==
    /\ stats_refreshes > 0
    /\ \E ok \in BOOLEAN :
        LET new_stats == fetch_detailed_stats(stats_time, ok)
        IN stats_cache' = IF new_stats # NoStats
                          THEN [data |-> new_stats, timestamp |-> stats_time]
                          ELSE stats_cache
    /\ stats_refreshes' = stats_refreshes - 1
    /\ UNCHANGED <<stats_time, stats_request, cycleVars, resetVars, generalVars>>

\* time.time() moves on
StatsTick ==
    /\ stats_time < MaxStatsTime
    /\ stats_time' = stats_time + 1
    /\ UNCHANGED <<stats_cache, stats_refreshes, stats_request, cycleVars, resetVars, generalVars>>

StatsInit ==
    /\ stats_time = 0
    /\ stats_cache = [data |-> NoStats, timestamp |-> 0]
    /\ stats_refreshes = 0
    /\ stats_request = [r \in Handlers |-> NoRequest]

\* ------------------------------------------------- general settings
\* the value of a key of the posted JSON: absent, null, a text that is no
\* number, a text of digits, an integer, a number with a fraction (n is
\* twice the number), true or false (n is 1 or 0)
JsonValue(kind, n) == [kind |-> kind, n |-> n]

HoursValues ==
    {JsonValue("missing", 0), JsonValue("null", 0), JsonValue("text", 0),
     JsonValue("digits", 3), JsonValue("bool", 1)}
    \cup {JsonValue("int", n) : n \in {-1, 0, 1, 3}}
    \cup {JsonValue("float", n) : n \in {1, 5}}

\* Python's int(): an integer as it is, a number with a fraction cut
\* towards zero, true and false as 1 and 0, a text of digits as the number
\* it spells; TypeError for None, ValueError for any other text
int(v) ==
    CASE v.kind \in {"int", "digits", "bool"} -> [ok |-> TRUE, value |-> v.n]
      [] v.kind = "float" ->
            [ok |-> TRUE, value |-> IF v.n >= 0 THEN v.n \div 2 ELSE 0 - ((0 - v.n) \div 2)]
      [] OTHER -> [ok |-> FALSE, value |-> 0]

AuthModes == {"login", "local_bypass", "no_login"}

\* what a request can carry as auth_mode: one of the three modes, another
\* text, or nothing
AuthModeValues == AuthModes \cup {"other", "none"}

GeneralData(modes, flags, hours) ==
    [auth_mode : modes, local_access_bypass : flags, proxy_auth_bypass : flags,
     stateful_management_hours : hours]

\* faulty variant: no_login leaves local_access_bypass as the request has it
AuthFlags_KeepsRequestFlag(data) ==
    CASE data.auth_mode = "local_bypass" ->
            [data EXCEPT !.local_access_bypass = TRUE, !.proxy_auth_bypass = FALSE]
      [] data.auth_mode = "no_login" ->
            [data EXCEPT !.proxy_auth_bypass = TRUE]
      [] data.auth_mode = "login" ->
            [data EXCEPT !.local_access_bypass = FALSE, !.proxy_auth_bypass = FALSE]
      [] OTHER -> data

\* lines 581-594: the bypass flags of the data are set from its auth_mode
AuthFlags(data) ==
    CASE data.auth_mode = "local_bypass" ->
            [data EXCEPT !.local_access_bypass = TRUE, !.proxy_auth_bypass = FALSE]
      [] data.auth_mode = "no_login" ->
            [data EXCEPT !.local_access_bypass = FALSE, !.proxy_auth_bypass = TRUE]
      [] data.auth_mode = "login" ->
            [data EXCEPT !.local_access_bypass = FALSE, !.proxy_auth_bypass = FALSE]
      [] OTHER -> data

\* lines 640-649: the retention asked for by the saved data, if any
NewHours(data) ==
    LET new_hours == int(data.stateful_management_hours)
    IN IF new_hours.ok /\ new_hours.value > 0 THEN new_hours.value ELSE 0

\* lines 566-657. success: settings_manager.save_settings stored the data;
\* lockOk: update_lock_expiration did not raise
save_general_settings(data, success, lockOk) ==
    LET checked == AuthFlags(data)
    IN /\ general_settings' = IF success THEN checked ELSE general_settings
       /\ general_request' = [data |-> data, success |-> success,
                               status |-> IF success THEN 200 ELSE 500]
       /\ IF success /\ NewHours(checked) > 0 /\ lockOk
          THEN update_lock_expiration(NewHours(checked))
          ELSE UNCHANGED <<retention, processed>>
       /\ UNCHANGED <<now, hourly_caps, racer, cap_check_failed, workerVars, resetVars,
                      statsVars>>

GeneralInit ==
    /\ general_settings =
          [auth_mode |-> "login", local_access_bypass |-> FALSE,
           proxy_auth_bypass |-> FALSE,
           stateful_management_hours |-> JsonValue("int", DefaultRetention)]
    /\ general_request = [data |-> general_settings, success |-> TRUE, status |-> 200]

\* ------------------------------------------------------------ specifications
Idle ==
    /\ pc = [w \in Instances |-> "idle"]
    /\ app_settings = [w \in Instances |-> NoSettings]
    /\ fetched = [w \in Instances |-> <<>>]
    /\ upgrade_eligible_data = [w \in Instances |-> <<>>]
    /\ unprocessed_movies = [w \in Instances |-> <<>>]
    /\ movies_to_process = [w \in Instances |-> <<>>]
    /\ trail = [w \in Instances |-> <<>>]
    /\ exit_reason = [w \in Instances |-> "none"]
    /\ result = [w \in Instances |-> "none"]
    /\ cycle_start = [w \in Instances |-> NoStart]

Init ==
    /\ now = 0
    /\ processed = {}
    /\ retention = DefaultRetention
    /\ hourly_caps = NoCounter
    /\ Idle
    /\ racer = [r \in Budgeted |-> "idle"]
    /\ cap_check_failed = FALSE
    /\ ResetInit
    /\ StatsInit
    /\ GeneralInit

PlainSettings == Settings({1, 2, 3}, {TRUE}, {FALSE}, {0})

\* the item loop of one instance against the hourly cap and the stop signal
Next ==
    \/ Fetch("A", PlainSettings, Batches(Ids, {Old}))
    \/ Select("A", FALSE)
    \/ ProcessMovie("A", BOOLEAN, BOOLEAN, BOOLEAN)
    \/ BudgetedCheck("m1", {TRUE})
    \/ BudgetedAct("m1")

Spec == Init /\ [][Next]_vars

\* the dedup store over time: one instance, the clock, the sweep, the retention
DedupSettings == Settings({1, 2}, {TRUE}, {FALSE}, {0})

DedupBatches ==
    {<<Movie(1, Old)>>, <<Movie(1, Old), Movie(2, Old)>>, <<Movie(1, Old), Movie(1, Old)>>}

NextDedup ==
    \/ Fetch("A", DedupSettings, DedupBatches)
    \/ Select("A", TRUE)
    \/ ProcessMovie("A", {FALSE}, {TRUE}, BOOLEAN)
    \/ Tick
    \/ SweepExpired
    \/ SetRetention

SpecDedup == Init /\ [][NextDedup]_vars

\* the selection stages on every page and every setting: instance "A" has
\* just fetched a page, and the store holds what earlier cycles left
SelectSettings == Settings({-1, 0, 1, 2}, BOOLEAN, BOOLEAN, {0, 3})

StoreChoices ==
    {{}, {[inst |-> "A", id |-> 1, processedAt |-> 0, expiresAt |-> DefaultRetention]}}

InitSelect ==
    /\ now = 0
    /\ processed \in StoreChoices
    /\ retention = DefaultRetention
    /\ hourly_caps = NoCounter
    /\ pc = [w \in Instances |-> IF w = "A" THEN "fetched" ELSE "idle"]
    /\ app_settings \in {[w \in Instances |-> IF w = "A" THEN s ELSE NoSettings] :
                            s \in SelectSettings}
    /\ fetched \in {[w \in Instances |-> IF w = "A" THEN b ELSE <<>>] :
                        b \in Batches(Ids, DatesAt(0))}
    /\ upgrade_eligible_data = fetched
    /\ unprocessed_movies = [w \in Instances |-> <<>>]
    /\ movies_to_process = [w \in Instances |-> <<>>]
    /\ trail = [w \in Instances |-> <<>>]
    /\ exit_reason = [w \in Instances |-> "none"]
    /\ result = [w \in Instances |-> "none"]
    /\ cycle_start = [w \in Instances |-> NoStart]
    /\ racer = [r \in Budgeted |-> "idle"]
    /\ cap_check_failed = FALSE
    /\ ResetInit
    /\ StatsInit
    /\ GeneralInit

NextSelect ==
    \/ Select("A", TRUE)
    \/ ProcessMovie("A", {FALSE}, {TRUE}, {TRUE})

SpecSelect == InitSelect /\ [][NextSelect]_vars

\* two instances and two budget-counting callers of one service sharing the
\* hourly counter
RaceSettings == Settings({1}, {TRUE}, {FALSE}, {0})

RaceBatches == {<<Movie(1, Old)>>}

NextRace ==
    \/ \E w \in Instances : Fetch(w, RaceSettings, RaceBatches)
    \/ \E w \in Instances : Select(w, FALSE)
    \/ \E w \in Instances : ProcessMovie(w, {FALSE}, BOOLEAN, {TRUE})
    \/ \E r \in Budgeted : BudgetedCheck(r, BOOLEAN)
    \/ \E r \in Budgeted : BudgetedAct(r)

SpecRace == Init /\ [][NextRace]_vars

\* cycles against a dedup store whose queries and writes can fail, with the
\* failed queries of each selection noted by position
NextStore ==
    \/ Fetch("A", DedupSettings, Batches(Ids, {Old}))
    \/ SelectTracked("A", TRUE, TRUE)
    \/ ProcessMovie("A", {FALSE}, {TRUE}, BOOLEAN)

SpecStore == Init /\ [][NextStore]_vars

\* cycle after cycle of one instance on a page that stays the same, one hour
\* apart, every search accepted, under a retention that outlasts the run
LongRetention == MaxTime + 1

ProgressBatches == {<<Movie(1, Old)>>, <<Movie(1, Old), Movie(2, Old)>>}

\* the first cycle, or the next one after the delay between two cycles; every
\* fetch succeeds and gives the same page under the same settings
ProgressFetch ==
    /\ pc["A"] = "returned" => cycle_start["A"].at < now
    /\ Fetch("A", DedupSettings, ProgressBatches)
    /\ ~cycle_start'["A"].fetchFailed
    /\ pc["A"] = "returned" =>
          /\ fetched'["A"] = fetched["A"]
          /\ app_settings' = app_settings

\* a pass of the item loop whose search is accepted
ProgressPass ==
    /\ ProcessMovie("A", {FALSE}, {TRUE}, BOOLEAN)
    /\ Len(trail'["A"]) > Len(trail["A"]) => trail'["A"][Len(trail'["A"])].accepted

\* the delay between two cycles
WorkerSleep ==
    /\ pc["A"] = "returned"
    /\ cycle_start["A"].at = now
    /\ Tick

\* the retention is set before the first cycle
SetLongRetention ==
    /\ pc["A"] = "idle"
    /\ retention # LongRetention
    /\ update_lock_expiration(LongRetention)
    /\ UNCHANGED <<now, hourly_caps, racer, cap_check_failed, workerVars, resetVars,
                   statsVars, generalVars>>

NextProgress ==
    \/ ProgressFetch
    \/ Select("A", TRUE)
    \/ ProgressPass
    \/ WorkerSleep
    \/ SetLongRetention

SpecProgress == Init /\ [][NextProgress]_vars

\* one instance whose every started step is finished: each call of the
\* cycle to a collaborator returns
BoundedSettings == Settings({-1, 0, 1, 2, 3}, {TRUE}, {FALSE}, {0})

CycleStep ==
    \/ Select("A", FALSE)
    \/ ProcessMovie("A", BOOLEAN, BOOLEAN, BOOLEAN)

NextBounded ==
    \/ Fetch("A", BoundedSettings, Batches(Ids, {Old}))
    \/ CycleStep

SpecBounded == Init /\ [][NextBounded]_vars /\ WF_vars(CycleStep)

\* saves of the general settings, with any data
NextGeneral ==
    \E data \in GeneralData(AuthModeValues \ {"local_bypass", "no_login"}, {FALSE},
                             HoursValues),
       success \in BOOLEAN, lockOk \in BOOLEAN :
        save_general_settings(data, success, lockOk)

SpecGeneral == Init /\ [][NextGeneral]_vars

\* saves of the general settings whose auth_mode is one of the three modes
NextAuth ==
    \E data \in GeneralData(AuthModes, BOOLEAN,
                             {JsonValue("missing", 0), JsonValue("int", 1)}),
       success \in BOOLEAN :
        save_general_settings(data, success, TRUE)

SpecAuth == Init /\ [][NextAuth]_vars

\* the statistics endpoint of prowlarr under requests of two handlers
NextStats ==
    \/ \E r \in Handlers : StatsLocked(r)
    \/ \E r \in Handlers : StatsAnswer(r)
    \/ update_stats_cache
    \/ StatsTick

SpecStats == Init /\ [][NextStats]_vars

\* cycles and another caller of the hourly budget while the clock moves from
\* one hour bucket to the next
NextRollover ==
    \/ Fetch("A", RaceSettings, RaceBatches)
    \/ Select("A", FALSE)
    \/ ProcessMovie("A", {FALSE}, {TRUE}, BOOLEAN)
    \/ BudgetedCheck("m1", {TRUE})
    \/ BudgetedAct("m1")
    \/ Tick

SpecRollover == Init /\ [][NextRollover]_vars

\* two instances of the service, with or without a configured name
NameSettings == RaceSettings \cup Unnamed(RaceSettings)

NextNames ==
    \/ \E w \in Instances : Fetch(w, NameSettings, RaceBatches)
    \/ \E w \in Instances : Select(w, FALSE)
    \/ \E w \in Instances : ProcessMovie(w, {FALSE}, {TRUE}, {TRUE})

SpecNames == Init /\ [][NextNames]_vars

\* two instances of the service, one or both of them with an address or a
\* key that is missing
ConfigSettings == RaceSettings \cup Malformed(RaceSettings)

NextConfig ==
    \/ \E w \in Instances : Fetch(w, ConfigSettings, RaceBatches)
    \/ \E w \in Instances : Select(w, FALSE)
    \/ \E w \in Instances : ProcessMovie(w, {FALSE}, {TRUE}, {TRUE})

SpecConfig == Init /\ [][NextConfig]_vars

\* cycles whose tag calls can fail
NextTag ==
    \/ Fetch("A", PlainSettings, Batches(Ids, {Old}))
    \/ Select("A", FALSE)
    \/ ProcessMovieTagged("A", {FALSE}, {TRUE}, {TRUE}, BOOLEAN)

SpecTag == Init /\ [][NextTag]_vars

\* the radarr worker between BeginCycle and EndCycle runs the upgrade cycle of
\* instance "A"; reset requests arrive at any moment
\* a reset request for radarr while radarr is configured
RadarrReset ==
    /\ reset_app_cycle
    /\ reset_response'.app = "radarr"
    /\ reset_response'.configured
    /\ ~reset_response'.enabled

WorkerBegin == pc["A"] \notin {"fetched", "loop"} /\ BeginCycle("radarr")

WorkerFetch == cycle_status["radarr"] = "Running" /\ Fetch("A", DedupSettings, DedupBatches)

WorkerEnd == pc["A"] = "returned" /\ EndCycle("radarr")

NextResetDedup ==
    \/ RadarrReset
    \/ WorkerBegin
    \/ WorkerFetch
    \/ Select("A", FALSE)
    \/ ProcessMovie("A", {FALSE}, {TRUE}, {TRUE})
    \/ WorkerEnd
    \/ BudgetedCheck("m1", {TRUE})
    \/ BudgetedAct("m1")

SpecResetDedup == Init /\ [][NextResetDedup]_vars

\* the release-date delay on pages around the delay boundary: instance "A"
\* has just fetched a page at hour 0
DelayDates ==
    {Iso(0 - 5 * HoursPerDay), Iso(0 - 3 * HoursPerDay), Iso(1 - 3 * HoursPerDay),
     Iso(0 - HoursPerDay), Iso(1), Missing, Empty, Junk}

DelaySettings == Settings({2}, BOOLEAN, BOOLEAN, {-1, 0, 3})

InitDelay ==
    /\ now = 0
    /\ processed = {}
    /\ retention = DefaultRetention
    /\ hourly_caps = NoCounter
    /\ pc = [w \in Instances |-> IF w = "A" THEN "fetched" ELSE "idle"]
    /\ app_settings \in {[w \in Instances |-> IF w = "A" THEN s ELSE NoSettings] :
                            s \in DelaySettings}
    /\ fetched \in {[w \in Instances |-> IF w = "A" THEN b ELSE <<>>] :
                        b \in Batches({1}, DelayDates)}
    /\ upgrade_eligible_data = fetched
    /\ unprocessed_movies = [w \in Instances |-> <<>>]
    /\ movies_to_process = [w \in Instances |-> <<>>]
    /\ trail = [w \in Instances |-> <<>>]
    /\ exit_reason = [w \in Instances |-> "none"]
    /\ result = [w \in Instances |-> "none"]
    /\ cycle_start = [w \in Instances |-> NoStart]
    /\ racer = [r \in Budgeted |-> "idle"]
    /\ cap_check_failed = FALSE
    /\ ResetInit
    /\ StatsInit
    /\ GeneralInit

NextDelay ==
    \/ Select("A", FALSE)
    \/ ProcessMovie("A", {FALSE}, {TRUE}, {TRUE})

SpecDelay == InitDelay /\ [][NextDelay]_vars

\* the reset endpoint against the workers' cycle tracker
NextReset ==
    \/ reset_app_cycle
    \/ \E a \in Workers : BeginCycle(a)
    \/ \E a \in Workers : EndCycle(a)

SpecReset == Init /\ [][NextReset]_vars

\* ------------------------------------------------------------------ claims
Range(q) == {q[i] : i \in 1..Len(q)}

\* the worker of w has sampled its work list in the current cycle
Sampled(w) == pc[w] \in {"loop", "returned"}

\* the step is a pass of the item loop of w that reached the Act call
ActStep(w) == Len(trail'[w]) = Len(trail[w]) + 1

LastEntry(w) == trail'[w][Len(trail'[w])]

\* the step is a pass of the item loop of w
LoopStep(w) == pc[w] = "loop" /\ (ActStep(w) \/ pc'[w] = "returned")

\* C1: the Act call is never accepted for an id of an instance while a dedup
\* record of that instance and id exists and has not expired.
C1_NoActInsideWindow ==
    [][\A w \in Instances :
         (ActStep(w) /\ LastEntry(w).accepted)
            => ~IsRecorded(processed, w, LastEntry(w).id, now)]_vars

\* the step is the selection step of w
SelectStep(w) == pc[w] = "fetched" /\ pc'[w] # "fetched"

\* records are made with the retention of the hour and kept, unshortened,
\* until they expire
RecordsKept ==
    /\ \A r \in processed' \ processed :
          r.processedAt = now /\ r.expiresAt = now + retention
    /\ \A r \in processed :
          now' < r.expiresAt => is_processed(processed', r.inst, r.id, now', TRUE)

C3_NoActAtCap ==
    [][\A w \in Instances :
         ActStep(w) => ~check_hourly_cap_exceeded(hourly_caps, now)]_vars

\* C3 amended: when the counter is at or above its limit at the start of a
\* pass and the cap check does not fail, the pass makes no Act call and the
\* cycle returns there, with nothing marked and with false if it was the
\* first pass; a returned cycle makes no further Act call.
C3_CapCheckHalts ==
    [][\A w \in Instances :
         /\ (LoopStep(w) /\ check_hourly_cap_exceeded(hourly_caps, now))
            => \/ ActStep(w) /\ ~LastEntry(w).capOk
               \/ /\ pc'[w] = "returned"
                  /\ exit_reason'[w] \in {"stop", "cap"}
                  /\ trail'[w] = trail[w]
                  /\ processed' = processed
                  /\ result'[w] = Bool(processed_something(trail[w]))
                  /\ trail[w] = <<>> => result'[w] = "false"
         /\ pc[w] = "returned" => ~ActStep(w)]_vars

C3_Witness ==
    /\ pc["A"] = "returned"
    /\ exit_reason["A"] = "cap"
    /\ trail["A"] = <<>>
    /\ movies_to_process["A"] # <<>>
    /\ result["A"] = "false"
    /\ CapCount(hourly_caps, now) = HourlyLimit

\* C4: a cycle that starts with the counter at c below the limit L, and stays
\* in one hour bucket, has at most L - c accepted Act calls and never sees
\* the counter above L.
C4_StopsAtBudget ==
    \A w \in Instances :
        (Sampled(w) /\ cycle_start[w].at = now /\ cycle_start[w].count < HourlyLimit)
            => /\ processed_count(trail[w]) <= HourlyLimit - cycle_start[w].count
               /\ CapCount(hourly_caps, now) <= HourlyLimit

\* C5 as stated: the counter of the current bucket never exceeds the limit by
\* more than one increment per racing caller.
C5_OvershootBounded ==
    CapCount(hourly_caps, now) <= HourlyLimit + Cardinality(Budgeted)

\* C5 amended: as long as no cap check has failed in the current bucket, the
\* counter never exceeds the limit by more than one increment per racing
\* caller.
C5_OvershootBoundedUnlessCheckFailed ==
    ~cap_check_failed =>
        CapCount(hourly_caps, now) <= HourlyLimit + Cardinality(Budgeted)

C5_Witness ==
    /\ ~cap_check_failed
    /\ CapCount(hourly_caps, now) = HourlyLimit + 1
    /\ \E w \in Instances : pc[w] = "returned" /\ exit_reason[w] = "cap"

\* C6: a pass of the item loop at whose top stop_check() answers true makes
\* no Act call: the cycle returns there, nothing is marked, tagged or logged
\* for the item of that pass or a later one, and an item at or after the
\* stop point has a record only if an earlier pass of the same cycle marked
\* its id.
C6_StopHalts ==
    [][\A w \in Instances :
         /\ ActStep(w) => ~LastEntry(w).stop
         /\ (exit_reason'[w] = "stop" /\ exit_reason[w] # "stop") =>
              /\ pc'[w] = "returned"
              /\ trail'[w] = trail[w]
              /\ processed' = processed
              /\ \A j \in (Len(trail[w]) + 1)..Len(movies_to_process[w]) :
                    IsRecorded(processed', w, movies_to_process[w][j].id, now')
                        => \E k \in 1..Len(trail[w]) :
                              /\ trail[w][k].id = movies_to_process[w][j].id
                              /\ trail[w][k].marked
         /\ pc[w] = "returned" =>
              /\ ~ActStep(w)
              /\ RecordsOfInstance(processed', w) \subseteq RecordsOfInstance(processed, w)]_vars

C6_Witness ==
    /\ exit_reason["A"] = "stop"
    /\ Len(trail["A"]) = 1
    /\ trail["A"][1].marked
    /\ Len(movies_to_process["A"]) = 2
    /\ ~IsRecorded(processed, "A", movies_to_process["A"][2].id, now)

\* C7: the work list has min(huntCount, size of the filtered pool) items,
\* and a huntCount of zero or less gives an empty work list, no Act call and
\* no error.
C7_SampleBound ==
    \A w \in Instances :
        Sampled(w) =>
            /\ result[w] # "raised"
            /\ app_settings[w].hunt_upgrade_movies > 0 =>
                  Len(movies_to_process[w])
                      = Min(app_settings[w].hunt_upgrade_movies, Len(unprocessed_movies[w]))
            /\ app_settings[w].hunt_upgrade_movies <= 0 =>
                  movies_to_process[w] = <<>> /\ trail[w] = <<>>

\* q is p with some entries left out
\* (every entry of q is an entry of p, no entry of p used twice)
DrawnFrom(q, p) ==
    \E f \in Injections(Len(q), Len(p)) : \A i \in 1..Len(q) : q[i] = p[f[i]]

IsFuture(movie, t) == movie.releaseDate.kind = "iso" /\ movie.releaseDate.at > t

HasNoDate(movie) == movie.releaseDate.kind # "iso"

\* the four filters of the selection, as conditions on one candidate
PassesAllFilters(m, w) ==
    LET settings == app_settings[w]
        t == cycle_start[w].at
    IN /\ settings.skip_future_releases => ~IsFuture(m, t)
       /\ HasNoDate(m) => settings.process_no_release_dates
       /\ ~(/\ settings.release_date_delay_days > 0
             /\ m.releaseDate.kind = "iso"
             /\ t < m.releaseDate.at + settings.release_date_delay_days * HoursPerDay)
       /\ (trail[w] = <<>> /\ ~cycle_start[w].failed) =>
              ~IsRecorded(processed, w, m.id, t)

\* C8: for a huntCount k >= 0 the work list holds only candidates of the
\* fetched page that pass all four filters (future-release, no-date, delay,
\* already-processed), no entry of the page twice, and has k entries, or as
\* many as passed the filters if that is fewer.
C8_SampleOfPool ==
    \A w \in Instances :
        (Sampled(w) /\ app_settings[w].hunt_upgrade_movies >= 0) =>
            /\ DrawnFrom(movies_to_process[w], fetched[w])
            /\ \A m \in Range(movies_to_process[w]) : PassesAllFilters(m, w)
            /\ Len(movies_to_process[w])
                  = Min(app_settings[w].hunt_upgrade_movies, Len(unprocessed_movies[w]))

\* C9: with skip_future_releases on, no candidate whose release date parses
\* and lies after the hour of the selection is in the work list, and no pass
\* of the item loop acts on anything but the work list's entry of that pass.
C9_FutureExcluded ==
    \A w \in Instances :
        (Sampled(w) /\ app_settings[w].skip_future_releases) =>
            /\ \A m \in Range(movies_to_process[w]) : ~IsFuture(m, cycle_start[w].at)
            /\ Len(trail[w]) <= Len(movies_to_process[w])
            /\ \A i \in 1..Len(trail[w]) : trail[w][i].id = movies_to_process[w][i].id

C9_Witness ==
    /\ Sampled("A")
    /\ app_settings["A"].skip_future_releases
    /\ app_settings["A"].process_no_release_dates
    /\ app_settings["A"].release_date_delay_days = 0
    /\ \E m \in Range(fetched["A"]) : IsFuture(m, cycle_start["A"].at)
    /\ Len(trail["A"]) = 1
    /\ trail["A"][1].accepted

\* C10: whatever skip_future_releases is, a candidate without a usable
\* release date is in the pool the date filters leave if and only if
\* process_no_release_dates is on.
C10_NoDatePolicy ==
    \A w \in Instances :
        Sampled(w) =>
            \A m \in Range(fetched[w]) :
                HasNoDate(m) =>
                    (m \in Range(upgrade_eligible_data[w])
                        <=> app_settings[w].process_no_release_dates)

\* the candidate's release date parses and the delay of the cycle of w has
\* not run out at the hour of the selection
DelayDue(m, w) ==
    /\ app_settings[w].release_date_delay_days > 0
    /\ m.releaseDate.kind = "iso"
    /\ cycle_start[w].at
          < m.releaseDate.at + app_settings[w].release_date_delay_days * HoursPerDay

\* the future-release stage of the cycle of w keeps the candidate
KeptBeforeDelay(m, w) ==
    app_settings[w].skip_future_releases =>
        /\ ~IsFuture(m, cycle_start[w].at)
        /\ HasNoDate(m) => app_settings[w].process_no_release_dates

\* C11: with releaseDateDelayDays = d, a candidate that reaches the delay
\* filter is dropped by it if and only if d > 0, its releaseDate parses and
\* now < releaseDate + d days; a candidate without a usable date, and any
\* candidate when d <= 0, is never delayed.
C11_DelayFilter ==
    \A w \in Instances :
        Sampled(w) =>
            \A m \in Range(fetched[w]) :
                (m \in Range(upgrade_eligible_data[w]))
                    <=> (KeptBeforeDelay(m, w) /\ ~DelayDue(m, w))

\* d = 3: the page holds a movie released one day ago and one released
\* exactly three days ago; only the second is left
C11_Witness ==
    /\ Sampled("A")
    /\ app_settings["A"].release_date_delay_days = 3
    /\ ~app_settings["A"].skip_future_releases
    /\ fetched["A"] = <<Movie(1, Iso(0 - HoursPerDay)), Movie(1, Iso(0 - 3 * HoursPerDay))>>
    /\ upgrade_eligible_data["A"] = <<Movie(1, Iso(0 - 3 * HoursPerDay))>>
    /\ Len(trail["A"]) = 1

\* the pass of this step was the last of the work list of w
LastPass(w) == Len(trail'[w]) = Len(movies_to_process[w])

\* after the pass of this step the loop of w goes on to the next item, or,
\* past the last item, the cycle returns its boolean
GoesOn(w) ==
    IF LastPass(w)
    THEN /\ pc'[w] = "returned"
         /\ exit_reason'[w] = "end"
         /\ result'[w] = Bool(processed_something(trail'[w]))
    ELSE /\ pc'[w] = "loop"
         /\ movies_to_process'[w] = movies_to_process[w]

\* C12: a pass whose Act call fails leaves the item unmarked, with no stat
\* increment, tag or history entry, and the loop goes on to the next selected
\* item; a pass makes no Act call only when the stop check or the cap check
\* ends the loop.
C12_FailedActGoesOn ==
    [][\A w \in Instances :
         /\ (ActStep(w) /\ ~LastEntry(w).accepted) =>
              /\ processed' = processed
              /\ hourly_caps' = hourly_caps
              /\ ~LastEntry(w).marked
              /\ ~LastEntry(w).counted
              /\ ~LastEntry(w).tagged
              /\ ~LastEntry(w).logged
              /\ GoesOn(w)
         /\ (LoopStep(w) /\ ~ActStep(w)) => exit_reason'[w] \in {"stop", "cap"}
         /\ pc'[w] = "loop" => Len(trail'[w]) < Len(movies_to_process'[w])]_vars

\* the first search of the cycle failed and the second item was searched
\* and accepted
C12_Witness ==
    /\ pc["A"] = "returned"
    /\ Len(trail["A"]) = 2
    /\ ~trail["A"][1].accepted
    /\ trail["A"][2].accepted
    /\ trail["A"][2].marked
    /\ result["A"] = "true"

\* C13: whatever the configuration of the instance and whatever the
\* collaborators answer, a cycle that ends has returned a boolean; no error
\* leaves the cycle.
C13_ReturnsBoolean ==
    \A w \in Instances :
        pc[w] = "returned" => result[w] \in {"true", "false"}

\* the positions of the eligible list that the selection of this step keeps
\* when every failed query counts as "not yet processed"
KeptWithFailedQueries(w) ==
    {i \in 1..Len(upgrade_eligible_data'[w]) :
        \/ i \in cycle_start'[w].failedAt
        \/ ~IsRecorded(processed, w, upgrade_eligible_data'[w][i].id, now)}

\* C14: a candidate whose IsProcessed query fails with a storage error is
\* treated as not yet processed: the pool holds exactly the candidates whose
\* query failed or that have no unexpired record, and the cycle goes on to
\* sample its work list from that pool.
C14_FailedQueryKeepsCandidate ==
    [][\A w \in Instances :
         (SelectStep(w) /\ fetched[w] # <<>>) =>
            /\ unprocessed_movies'[w]
                  = Pick(upgrade_eligible_data'[w], KeptWithFailedQueries(w))
            /\ result'[w] # "raised"
            /\ unprocessed_movies'[w] # <<>> =>
                  /\ pc'[w] = "loop"
                  /\ Len(movies_to_process'[w])
                        = Min(app_settings[w].hunt_upgrade_movies,
                              Len(unprocessed_movies'[w]))
                  /\ Range(movies_to_process'[w]) \subseteq Range(unprocessed_movies'[w])]_vars

\* the page held ids 1 and 2, both recorded; the query of id 1 failed, the
\* one of id 2 answered; id 1 alone was put in the work list and searched
C14_Witness ==
    /\ Sampled("A")
    /\ Len(upgrade_eligible_data["A"]) = 2
    /\ upgrade_eligible_data["A"][1].id = 1
    /\ upgrade_eligible_data["A"][2].id = 2
    /\ IsRecorded(processed, "A", 1, cycle_start["A"].at)
    /\ IsRecorded(processed, "A", 2, cycle_start["A"].at)
    /\ cycle_start["A"].failedAt = {1}
    /\ unprocessed_movies["A"] = <<upgrade_eligible_data["A"][1]>>
    /\ Len(trail["A"]) = 1
    /\ trail["A"][1].id = 1

\* C15: a pass whose Act call is accepted and whose MarkProcessed then fails
\* stores no record and still counts and logs the search; the loop goes on
\* to the next selected item, and past the last item the cycle returns true.
C15_FailedMarkGoesOn ==
    [][\A w \in Instances :
         (ActStep(w) /\ LastEntry(w).accepted /\ ~LastEntry(w).marked) =>
            /\ processed' = processed
            /\ LastEntry(w).counted
            /\ LastEntry(w).logged
            /\ IF LastPass(w)
               THEN pc'[w] = "returned" /\ exit_reason'[w] = "end" /\ result'[w] = "true"
               ELSE pc'[w] = "loop" /\ result'[w] = "none"]_vars

\* the id of the first accepted search was not stored; the second item was
\* searched all the same and the cycle returned true
C15_Witness ==
    /\ pc["A"] = "returned"
    /\ Len(trail["A"]) = 2
    /\ trail["A"][1].accepted
    /\ ~trail["A"][1].marked
    /\ ~trail["A"][2].accepted
    /\ ~IsRecorded(processed, "A", trail["A"][1].id, now)
    /\ result["A"] = "true"

\* a pass of the loop of w in which stop_check() answers false and the cap
\* check raises, and which reaches the Act call
FailedCheckPass(w) == ProcessMovie(w, {FALSE}, {FALSE}, BOOLEAN) /\ ActStep(w)

\* C16: in a pass whose hourly cap check fails the check counts as not
\* exceeded: whatever the counter, such a pass reaches the Act call, the loop
\* then goes on to the next item, and the loop ends on the cap only when
\* the counter is at its limit.
C16_FailedCheckActs ==
    /\ [](\A w \in Instances : pc[w] = "loop" => ENABLED FailedCheckPass(w))
    /\ [][\A w \in Instances :
            /\ (ActStep(w) /\ ~LastEntry(w).capOk) =>
                  IF LastPass(w) THEN pc'[w] = "returned" /\ exit_reason'[w] = "end"
                                 ELSE pc'[w] = "loop"
            /\ (LoopStep(w) /\ exit_reason'[w] = "cap") =>
                  check_hourly_cap_exceeded(hourly_caps, now)]_vars

\* with the counter at its limit the check of the first pass failed and the
\* search was made; the check of the second pass failed too and the second
\* item was searched
C16_Witness ==
    /\ Len(trail["A"]) = 2
    /\ ~trail["A"][1].capOk
    /\ ~trail["A"][2].capOk
    /\ cycle_start["A"].at = now
    /\ cycle_start["A"].count >= HourlyLimit
    /\ check_hourly_cap_exceeded(hourly_caps, now)

\* C17: when the fetch hands back an empty page or fails, the cycle returns
\* false at once: no is_processed query, no cap check and no Act call is
\* made, and the dedup store, the counters and the history stay as they were.
C17_EmptyFetchEnds ==
    [][\A w \in Instances :
         (SelectStep(w) /\ (cycle_start[w].fetchFailed \/ fetched[w] = <<>>)) =>
            /\ pc'[w] = "returned"
            /\ result'[w] = "false"
            /\ exit_reason'[w] = "nothing"
            /\ ~cycle_start'[w].failed
            /\ unprocessed_movies'[w] = <<>>
            /\ movies_to_process'[w] = <<>>
            /\ trail'[w] = <<>>
            /\ processed' = processed
            /\ hourly_caps' = hourly_caps
            /\ cap_check_failed' = cap_check_failed]_vars

\* the fetch of the cycle failed while the store held a record, and the
\* cycle returned false
C17_Witness ==
    /\ pc["A"] = "returned"
    /\ cycle_start["A"].fetchFailed
    /\ result["A"] = "false"
    /\ trail["A"] = <<>>
    /\ processed # {}

\* C18: a cycle that has ended has returned true if at least one of its Act
\* calls was accepted and false otherwise, so false after an empty fetch, an
\* empty selection, a stop, a reached cap, or failed Act calls only.
C18_TrueIffAccepted ==
    \A w \in Instances :
        pc[w] = "returned" =>
            result[w] = (IF \E i \in 1..Len(trail[w]) : trail[w][i].accepted
                         THEN "true" ELSE "false")

\* the step is a call of the reset endpoint
ResetStep == cycle_status' = cycle_status

\* the request answered with r names an unknown service, a service that is
\* not configured, or swaparr while it is disabled
NotConfigured(r) ==
    \/ r.app \notin {"sonarr", "radarr", "lidarr", "readarr", "whisparr", "eros", "swaparr"}
    \/ r.app = "swaparr" /\ ~r.enabled
    \/ r.app # "swaparr" /\ ~r.configured

\* the step records one reset request for the service a and nothing else
RecordsRequest(a) ==
    /\ reset_requests' = [reset_requests EXCEPT ![a] = TRUE]
    /\ reset_count' = [reset_count EXCEPT ![a].stored = @ + 1]

\* the step records nothing
RecordsNothing ==
    /\ reset_requests' = reset_requests
    /\ reset_count' = reset_count

\* C19 as stated: a reset request for an unknown service, a service that is
\* not configured, or the disabled swaparr is rejected and records nothing;
\* every other request records exactly one reset request for its service.
C19_RejectedOrRecorded ==
    [][ResetStep =>
          /\ cycleVars' = cycleVars
          /\ IF NotConfigured(reset_response')
             THEN reset_response'.status = 400 /\ RecordsNothing
             ELSE RecordsRequest(reset_response'.app)]_vars

\* C19 amended: such a request is rejected with status 400 and records
\* nothing; every other request is handed to the database, and either the
\* database stores it, one request is pending for the service and the
\* answer is 200, or the database fails, nothing is recorded and the
\* answer is 500. The cycle state is untouched in every case.
C19_RejectedStoredOrFailed ==
    [][ResetStep =>
          /\ cycleVars' = cycleVars
          /\ IF NotConfigured(reset_response')
             THEN reset_response'.status = 400 /\ RecordsNothing
             ELSE \/ /\ reset_response'.status = 200
                     /\ reset_response'.stored
                     /\ RecordsRequest(reset_response'.app)
                  \/ /\ reset_response'.status = 500
                     /\ ~reset_response'.stored
                     /\ RecordsNothing]_vars

\* a request for swaparr was stored and is pending; a later request for the
\* configured radarr met a failing database and left nothing behind
C19_Witness ==
    /\ reset_response.app = "radarr"
    /\ reset_response.configured
    /\ reset_response.status = 500
    /\ ~reset_requests["radarr"]
    /\ reset_count["radarr"].stored = 0
    /\ reset_requests["swaparr"]
    /\ reset_count["swaparr"].stored = 1

\* a call of the reset endpoint that stores a request for the service a
StoresRequest(a) ==
    /\ reset_app_cycle
    /\ reset_requests'[a]
    /\ reset_count'[a].stored = reset_count[a].stored + 1

\* the step is BeginCycle of the worker of a
BeginStep(a) == cycle_status[a] = "Idle" /\ cycle_status'[a] = "Running"

\* C20: the cycle state of a worker only moves Idle -> Running -> Idle and
\* never gets stuck; a reset request can be stored in either state, stays
\* pending until the worker's next BeginCycle, is consumed there and nowhere
\* else, and is neither lost nor consumed twice.
C20_ResetConsumedAtBegin ==
    /\ [](\A a \in Workers :
            /\ cycle_status[a] \in {"Idle", "Running"}
            /\ ENABLED BeginCycle(a) \/ ENABLED EndCycle(a)
            /\ reset_count[a].stored < MaxResets => ENABLED StoresRequest(a)
            /\ reset_count[a].performed <= reset_count[a].stored
            /\ reset_requests[a] => reset_count[a].performed < reset_count[a].stored)
    /\ [][\A a \in Workers :
            /\ cycle_status'[a] # cycle_status[a] =>
                  \/ BeginStep(a)
                  \/ cycle_status[a] = "Running" /\ cycle_status'[a] = "Idle"
            /\ reset_count'[a].stored # reset_count[a].stored => reset_requests'[a]
            /\ (reset_requests[a] /\ ~reset_requests'[a]) =>
                  /\ BeginStep(a)
                  /\ reset_count'[a].performed = reset_count[a].performed + 1
            /\ reset_count'[a].performed # reset_count[a].performed =>
                  reset_requests[a] /\ ~reset_requests'[a]
            /\ BeginStep(a) => ~reset_requests'[a]
            /\ (reset_requests[a] /\ ~BeginStep(a)) => reset_requests'[a]]_vars

\* one request of radarr was consumed at a BeginCycle, and a second one,
\* stored while that cycle is running, is pending
C20_Witness ==
    /\ cycle_status["radarr"] = "Running"
    /\ reset_requests["radarr"]
    /\ reset_count["radarr"].stored = 2
    /\ reset_count["radarr"].performed = 1

\* the step stores a reset request, or is the BeginCycle that consumes one
ResetOrConsume ==
    \/ reset_response' # reset_response
    \/ reset_requests' # reset_requests
    \/ reset_count' # reset_count

\* C21: a reset request and its consumption at BeginCycle leave the dedup
\* records, the retention and the hourly counters as they were; the records
\* present at the reset are still there afterwards, and a cycle after the
\* reset puts no id with such a record in its pool or its work list.
C21_ResetKeepsRecords ==
    /\ [](reset_count["radarr"].recordsAtReset \subseteq processed)
    /\ [][/\ ResetOrConsume =>
                /\ processed' = processed
                /\ hourly_caps' = hourly_caps
                /\ retention' = retention
           /\ \A w \in Instances :
                SelectStep(w) =>
                    \A m \in Range(unprocessed_movies'[w]) \cup Range(movies_to_process'[w]) :
                        /\ ~IsRecorded(processed, w, m.id, now)
                        /\ ~IsRecorded(reset_count["radarr"].recordsAtReset, w, m.id, now)]_vars

\* id 1 had a record and the hourly counter stood at 1 when the reset was
\* consumed; the cycle running since then fetched ids 1 and 2 and kept
\* only id 2
C21_Witness ==
    /\ reset_count["radarr"].performed = 1
    /\ IsRecorded(reset_count["radarr"].recordsAtReset, "A", 1, now)
    /\ ~IsRecorded(reset_count["radarr"].recordsAtReset, "A", 2, now)
    /\ CapCount(hourly_caps, now) = 1
    /\ pc["A"] = "loop"
    /\ trail["A"] = <<>>
    /\ Len(upgrade_eligible_data["A"]) = 2
    /\ Len(unprocessed_movies["A"]) = 1
    /\ unprocessed_movies["A"][1].id = 2

\* C22: a pass whose Act call is accepted and whose tag call fails still
\* stores the record of the item, counts the search, writes the history
\* entry and makes the cycle's result true; the loop goes on to the next
\* item.
C22_FailedTagGoesOn ==
    [][\A w \in Instances :
         (ActStep(w) /\ LastEntry(w).tagFailed) =>
            /\ LastEntry(w).accepted
            /\ ~LastEntry(w).tagged
            /\ LastEntry(w).marked
            /\ IsRecorded(processed', w, LastEntry(w).id, now)
            /\ LastEntry(w).counted
            /\ LastEntry(w).logged
            /\ IF LastPass(w)
               THEN pc'[w] = "returned" /\ exit_reason'[w] = "end" /\ result'[w] = "true"
               ELSE pc'[w] = "loop" /\ result'[w] = "none"]_vars

\* the tag of the first item failed; the item has its record and its
\* history entry, and the second item was searched and tagged
C22_Witness ==
    /\ pc["A"] = "returned"
    /\ result["A"] = "true"
    /\ Len(trail["A"]) = 2
    /\ trail["A"][1].tagFailed
    /\ trail["A"][1].logged
    /\ IsRecorded(processed, "A", trail["A"][1].id, now)
    /\ trail["A"][2].tagged
    /\ trail["A"][2].id # trail["A"][1].id

\* what IsProcessed answers the cycle of instance v for the id x
Answer(store, v, x) ==
    is_processed(store, instance_name(v, app_settings[v]), x, now, TRUE)

\* C23: a pass of the cycle of one instance, marking an id included, never
\* changes what IsProcessed answers another instance for any id.
C23_ScopedPerInstance ==
    [][\A w \in Instances, v \in Instances :
         (ActStep(w) /\ v # w) =>
            \A x \in Ids : Answer(processed', v, x) = Answer(processed, v, x)]_vars

\* the blocking calls to the remote service made by a pass after its poll of
\* stop_check(): movie_search, and tag_processed_movie when the search was
\* accepted and tagging is on
NetworkCalls(entry) ==
    Cardinality({"movie_search"}
                \cup (IF entry.tagged \/ entry.tagFailed THEN {"tag_processed_movie"} ELSE {}))

\* C24: between two consecutive polls of stop_check() the cycle makes at
\* most one blocking call to the remote service.
C24_OneCallBetweenPolls ==
    \A w \in Instances :
        \A i \in 1..Len(trail[w]) :
            i < Len(movies_to_process[w]) => NetworkCalls(trail[w][i]) <= 1

\* a pass of the loop of w in which stop_check() answers false and the cap
\* check answers, and which reaches the Act call
CheckedPass(w) == ProcessMovie(w, {FALSE}, {TRUE}, BOOLEAN) /\ ActStep(w)

\* what a step does to the hourly budget: a tick of the clock leaves no
\* count for the new hour, the loop ends on the cap only for a count of the
\* current hour, and the first increment of an hour gives a count of one
BucketStep ==
    /\ now' # now => /\ CapCount(hourly_caps', now') = 0
                     /\ ~check_hourly_cap_exceeded(hourly_caps', now')
    /\ \A w \in Instances :
          (LoopStep(w) /\ exit_reason'[w] = "cap") =>
              /\ hourly_caps.hourBucket = CurrentBucket(now)
              /\ hourly_caps.count >= HourlyLimit
    /\ (hourly_caps' # hourly_caps /\ hourly_caps.hourBucket # CurrentBucket(now)) =>
          hourly_caps' = [hourBucket |-> CurrentBucket(now), count |-> 1]

\* C25: the hourly cap never halts the service for good: when the clock
\* enters the next hour bucket the count of the old bucket is not carried
\* over, the cap check answers "not exceeded", a pass of the loop reaches the
\* Act call again, and counting restarts at one.
C25_CapResetsWithBucket ==
    /\ [](\A w \in Instances :
            (pc[w] = "loop" /\ hourly_caps.hourBucket # CurrentBucket(now))
                => ENABLED CheckedPass(w))
    /\ [][BucketStep]_vars

\* the counter reached the limit in hour 0 and stopped a cycle there; in
\* hour 1 the stale counter is still stored and the cycle of that hour has
\* made its Act call
C25_Witness ==
    /\ now = 1
    /\ hourly_caps.hourBucket = CurrentBucket(0)
    /\ hourly_caps.count = HourlyLimit
    /\ cycle_start["A"].at = 1
    /\ Len(trail["A"]) = 1
    /\ trail["A"][1].capOk
    /\ trail["A"][1].accepted

\* C26: a change of the retention leaves every stored record, its expiry
\* included, as it was; only the records made afterwards get the new
\* retention.
C26_RetentionNotRetroactive ==
    [][/\ retention' # retention => processed' = processed
       /\ \A r \in processed' \ processed : r.expiresAt = now + retention]_vars

\* id 1 was recorded at hour 0 under the retention of that time, then the
\* retention was changed and id 2 was recorded under the new one; the
\* record of id 1 still has its old expiry
C26_Witness ==
    /\ retention # DefaultRetention
    /\ \E r1 \in processed, r2 \in processed :
          /\ r1.id = 1
          /\ r1.processedAt = 0
          /\ r1.expiresAt = DefaultRetention
          /\ r2.id = 2
          /\ r2.expiresAt = r2.processedAt + retention

\* the step marks an id that has a record already, with this old record
Remarks(w, old) ==
    /\ ActStep(w)
    /\ LastEntry(w).marked
    /\ old \in RecordsOf(processed, instance_name(w, app_settings[w]), LastEntry(w).id)

\* C27: marking an id that has a record already raises nothing and leaves
\* exactly one record of the id, made now and expiring at now + ttl, which
\* is not earlier than the old expiry when the old record was made under
\* the same ttl; every other record stays as it was, and no id ever has two
\* records.
C27_RemarkKeepsOneRecord ==
    /\ [](\A w \in Instances, x \in Ids : Cardinality(RecordsOf(processed, w, x)) <= 1)
    /\ [][\A w \in Instances, old \in processed :
            Remarks(w, old) =>
                /\ RecordsOf(processed', old.inst, old.id)
                      = {[inst |-> old.inst, id |-> old.id,
                          processedAt |-> now, expiresAt |-> now + retention]}
                /\ processed' \ RecordsOf(processed', old.inst, old.id)
                      = processed \ RecordsOf(processed, old.inst, old.id)
                /\ old.expiresAt = old.processedAt + retention
                      => now + retention >= old.expiresAt
                /\ pc'[w] \in {"loop", "returned"}
                /\ result'[w] # "raised"]_vars

\* the cycle selected at hour 0 searched id 1 twice; the second search was
\* made an hour later and its mark replaced the record of the first
C27_Witness ==
    /\ now = 1
    /\ cycle_start["A"].at = 0
    /\ Len(trail["A"]) = 2
    /\ trail["A"][1].id = 1
    /\ trail["A"][1].marked
    /\ trail["A"][2].id = 1
    /\ trail["A"][2].marked
    /\ RecordsOf(processed, "A", 1)
          = {[inst |-> "A", id |-> 1, processedAt |-> 1, expiresAt |-> 1 + retention]}

\* C28: the refresh of the statistics cache is single-flight: at no time
\* are two background refreshes in flight.
C28_SingleFlight == stats_refreshes <= 1

\* the configuration of the cycle lacks the address or the key
InvalidConfig(settings) == api_url(settings) = "" \/ api_key(settings) = ""

\* C29: a cycle whose configuration has an empty address or an empty key
\* does not run: it never gets to the call that fetches the candidates, and
\* so to no pass of the loop and no search.
C29_InvalidConfigDoesNotRun ==
    \A w \in Instances :
        InvalidConfig(app_settings[w]) =>
            /\ pc[w] \notin {"fetched", "loop"}
            /\ trail[w] = <<>>

\* the candidate's release date parses and is not after t
ReleasedBy(m, t) == m.releaseDate.kind = "iso" /\ m.releaseDate.at <= t

\* C30: whatever skip_future_releases and process_no_release_dates are, a
\* candidate whose release date parses and is not after now (the date equal
\* to now included) is left by the release-date stages unless the delay
\* filter holds it back, and is left out of the unprocessed movies only by
\* the delay filter or because the store has it as processed.
C30_PastDatePasses ==
    \A w \in Instances :
        Sampled(w) =>
            \A m \in Range(fetched[w]) :
                ReleasedBy(m, cycle_start[w].at) =>
                    /\ ~DelayDue(m, w) => m \in Range(upgrade_eligible_data[w])
                    /\ (trail[w] = <<>> /\ m \notin Range(unprocessed_movies[w])) =>
                          \/ DelayDue(m, w)
                          \/ IsRecorded(processed, instance_name(w, app_settings[w]),
                                        m.id, cycle_start[w].at)

\* future releases are skipped and movies without a date are not processed;
\* the one movie of the page, released at the very hour of the cycle, is
\* selected and searched
C30_Witness ==
    /\ Sampled("A")
    /\ app_settings["A"].skip_future_releases
    /\ ~app_settings["A"].process_no_release_dates
    /\ fetched["A"] = <<Movie(1, Iso(cycle_start["A"].at))>>
    /\ movies_to_process["A"] = fetched["A"]
    /\ Len(trail["A"]) = 1
    /\ trail["A"][1].accepted

\* the passes of the cycle of w so far, by what they left behind
AcceptedPasses(w) == {i \in 1..Len(trail[w]) : trail[w][i].accepted}

MarkedPasses(w) == {i \in 1..Len(trail[w]) : trail[w][i].marked}

LoggedPasses(w) == {i \in 1..Len(trail[w]) : trail[w][i].logged}

\* the number of increments of the "upgraded" stat made by the cycle of w
UpgradedStat(w) == Cardinality({i \in 1..Len(trail[w]) : trail[w][i].counted})

CreatesOnlyAccepted ==
    \A r \in processed' \ processed :
        \E w \in Instances :
            /\ ActStep(w)
            /\ LastEntry(w).accepted
            /\ LastEntry(w).marked
            /\ LastEntry(w).id = movies_to_process[w][Len(trail'[w])].id
            /\ r.id = LastEntry(w).id
            /\ r.inst = instance_name(w, app_settings[w])

\* an accepted search of this step is marked when the store then holds a
\* record of the item made now, and is unmarked only when the write failed
\* and left the store as it was
MarkedIffStored ==
    \A w \in Instances :
        (ActStep(w) /\ LastEntry(w).accepted) =>
            IF LastEntry(w).marked
            THEN \E r \in processed' :
                    /\ r.id = LastEntry(w).id
                    /\ r.inst = instance_name(w, app_settings[w])
                    /\ r.processedAt = now
            ELSE processed' = processed

MarkedBefore(h) == {r.id : r \in {q \in processed : q.inst = "A" /\ q.processedAt < h}}

MarkedAt(h) == {r.id : r \in {q \in processed : q.inst = "A" /\ q.processedAt = h}}

\* the candidates every fetch returns, and how many of them were left to
\* the cycle of hour h
Candidates == {m.id : m \in Range(fetched["A"])}

Remaining(h) == Cardinality(Candidates \ MarkedBefore(h))

\* what the cycle of hour h marks when it makes progress as claimed
Due(h) == Min(app_settings["A"].hunt_upgrade_movies, Remaining(h))

\* ceil(n / k)
CeilDiv(n, k) == (n + k - 1) \div k

\* the cycle of this hour has returned, and no record has run out
CycleDone ==
    /\ pc["A"] = "returned"
    /\ cycle_start["A"].at = now
    /\ \A r \in processed : now < r.expiresAt

\* C32 as stated: every cycle marks min(k, remaining) new items, so after
\* ceil(n / k) cycles every candidate is marked, and a later cycle returns
\* false without a search.
C32_Progress ==
    CycleDone =>
        /\ Cardinality(MarkedAt(now)) = Due(now)
        /\ now + 1 >= CeilDiv(Cardinality(Candidates), app_settings["A"].hunt_upgrade_movies)
              => Candidates \subseteq MarkedBefore(now + 1)
        /\ now + 1 > CeilDiv(Cardinality(Candidates), app_settings["A"].hunt_upgrade_movies)
              => result["A"] = "false" /\ trail["A"] = <<>>

\* no query and no write of the store failed in this cycle
StoreAnswered ==
    /\ ~cycle_start["A"].failed
    /\ \A i \in 1..Len(trail["A"]) : trail["A"][i].marked

\* every cycle up to this hour marked what was due
OnSchedule == \A h \in 0..now : Cardinality(MarkedAt(h)) = Due(h)

\* C32 amended: a cycle in which every store call went through marks
\* min(k, remaining) new items; when every cycle so far did, every
\* candidate is marked after ceil(n / k) cycles; and a cycle that starts
\* with every candidate marked returns false without a search.
C32_ProgressWithStore ==
    (CycleDone /\ StoreAnswered) =>
        /\ Len(trail["A"]) = Due(now)
        /\ Cardinality(MarkedAt(now)) = Due(now)
        /\ MarkedAt(now) \cap MarkedBefore(now) = {}
        /\ (OnSchedule /\ now + 1 >= CeilDiv(Cardinality(Candidates),
                                              app_settings["A"].hunt_upgrade_movies))
              => Candidates \subseteq MarkedBefore(now + 1)
        /\ Candidates \subseteq MarkedBefore(now)
              => result["A"] = "false" /\ trail["A"] = <<>>

\* two candidates, one per cycle: the third cycle finds both marked and
\* returns false without a search
C32_Witness ==
    /\ CycleDone
    /\ StoreAnswered
    /\ OnSchedule
    /\ now = 2
    /\ app_settings["A"].hunt_upgrade_movies = 1
    /\ Cardinality(Candidates) = 2
    /\ Cardinality(MarkedAt(0)) = 1
    /\ Cardinality(MarkedAt(1)) = 1
    /\ result["A"] = "false"
    /\ trail["A"] = <<>>

\* the most movies one page holds: "count" of the fetch call (line 97), for
\* which the model has MaxBatch
PageSize == MaxBatch

\* min(huntCount, page size), and none for a count below zero
IterationBound(settings) ==
    IF settings.hunt_upgrade_movies < 0 THEN 0
    ELSE Min(settings.hunt_upgrade_movies, PageSize)

\* a pass of this step acts on the next item of the work list, each item
\* in its turn and once
OneActPerItem ==
    \A w \in Instances :
        ActStep(w) =>
            /\ Len(trail'[w]) <= Len(movies_to_process[w])
            /\ LastEntry(w).id = movies_to_process[w][Len(trail'[w])].id
            /\ \A i \in 1..Len(trail[w]) : trail'[w][i] = trail[w][i]

\* C33: every cycle ends, after at most min(huntCount, page size) passes of
\* the item loop, and it makes at most one Act call per selected item, so at
\* most min(huntCount, page size) Act calls.
C33_BoundedCycle ==
    /\ [](\A w \in Instances :
            /\ Len(trail[w]) <= IterationBound(app_settings[w])
            /\ Len(trail[w]) <= Len(movies_to_process[w]))
    /\ [][OneActPerItem]_vars
    /\ \A w \in Instances : (pc[w] = "fetched") ~> (pc[w] = "returned")

\* a hunt count above the size of the page: the cycle ended after one pass
\* per movie of the page
C33_Witness ==
    /\ pc["A"] = "returned"
    /\ exit_reason["A"] = "end"
    /\ app_settings["A"].hunt_upgrade_movies > PageSize
    /\ Len(fetched["A"]) = PageSize
    /\ Len(trail["A"]) = PageSize

\* the step leaves the cache as it was, or stores statistics fetched now
\* together with the time of now
KeepsOrRefreshes ==
    \/ stats_cache' = stats_cache
    \/ /\ stats_cache'.data # NoStats
       /\ stats_cache'.data = stats_time
       /\ stats_cache'.timestamp = stats_time

\* a request that takes the lock while the cache holds data is handed data,
\* and a request that was handed data is answered with 200
ServedFromCache ==
    \A r \in Handlers :
        /\ (stats_request[r].phase = "idle" /\ stats_request'[r].phase = "unlocked"
              /\ stats_cache.data # NoStats)
             => stats_request'[r].cached_data # NoStats
        /\ (stats_request[r].phase = "unlocked" /\ stats_request'[r].phase = "idle")
             => (stats_request'[r].status = 503 <=> stats_request[r].cached_data = NoStats)

\* C34: a fetch that fails, the first one or one in the background, leaves
\* the data and the timestamp of the cache as they were; a cache that holds
\* data never becomes empty again, and a request that arrives from then on
\* is never answered 'Statistics not available'.
C34_FailedFetchKeepsCache ==
    /\ [][KeepsOrRefreshes]_vars
    /\ [][stats_cache.data # NoStats => stats_cache'.data # NoStats]_vars
    /\ [][ServedFromCache]_vars

\* the first fetch of a request failed and it was answered 503; later the
\* cache was filled, went stale, and the refresh a request started on it
\* has ended without a change to the cache
C34_Witness ==
    /\ stats_request["r1"].phase = "idle"
    /\ stats_request["r1"].status = 503
    /\ stats_request["r2"].phase = "idle"
    /\ stats_request["r2"].status = 200
    /\ stats_request["r2"].current_time - stats_cache.timestamp > CacheDuration
    /\ stats_request["r2"].stats = stats_cache.data
    /\ stats_refreshes = 0

\* the step is the locked part, or the answer, of the request of handler r
LockedStep(r) == stats_request[r].phase = "idle" /\ stats_request'[r].phase = "unlocked"

AnswerStep(r) == stats_request[r].phase = "unlocked" /\ stats_request'[r].phase = "idle"

\* a request on a cache that holds data takes that data and leaves the
\* cache alone; it starts a refresh exactly when the data is older than
\* cache_duration; and it is answered 200 with the data it took
RequestOnFilledCache ==
    \A r \in Handlers :
        /\ (LockedStep(r) /\ stats_cache.data # NoStats) =>
              /\ stats_cache' = stats_cache
              /\ stats_request'[r].cached_data = stats_cache.data
              /\ stats_refreshes' =
                    IF stats_time - stats_cache.timestamp <= CacheDuration
                    THEN stats_refreshes
                    ELSE stats_refreshes + 1
        /\ (AnswerStep(r) /\ stats_request[r].cached_data # NoStats) =>
              /\ stats_request'[r].status = 200
              /\ stats_request'[r].stats = stats_request[r].cached_data

\* C35: a request on a cache whose data is at most cache_duration old starts
\* no fetch and returns the cached data; a request on a cache with older
\* data starts a refresh and returns the old data, and its answer does not
\* wait for any refresh to end.
C35_FreshServedStaleRefreshed ==
    /\ [][RequestOnFilledCache]_vars
    /\ [](\A r \in Handlers :
            stats_request[r].phase = "unlocked" => ENABLED StatsAnswer(r))

\* r2 was answered from data exactly cache_duration old; r1 has taken data
\* older than that, and the refresh it started is still running
C35_Witness ==
    /\ stats_request["r2"].phase = "idle"
    /\ stats_request["r2"].status = 200
    /\ stats_request["r2"].cache_age = CacheDuration
    /\ stats_request["r1"].phase = "unlocked"
    /\ stats_request["r1"].cached_data = stats_cache.data
    /\ stats_request["r1"].current_time - stats_cache.timestamp > CacheDuration
    /\ stats_refreshes = 1

\* C36: the cache_age of an answer with statistics is not negative and is
\* the age, at the time of the request, of the statistics in that answer.
C36_AgeOfReturnedData ==
    \A r \in Handlers :
        (stats_request[r].phase = "idle" /\ stats_request[r].status = 200) =>
            /\ stats_request[r].cache_age >= 0
            /\ stats_request[r].cache_age
                  = stats_request[r].current_time - stats_request[r].stats

\* the value is an integer above zero, as a number or as a text of digits
PositiveInteger(v) == v.kind \in {"int", "digits"} /\ v.n > 0

\* the step is a save of the general settings
SaveStep == general_request' # general_request \/ general_settings' # general_settings

\* a save changes the retention only when it was stored and carried a
\* positive integer; every save is answered
RetentionBySave ==
    SaveStep =>
        /\ retention' # retention =>
              /\ general_request'.success
              /\ PositiveInteger(general_request'.data.stateful_management_hours)
        /\ general_request'.status \in {200, 500}

\* C37: saving the general settings changes the dedup retention only when
\* the save succeeded and stateful_management_hours is an integer above
\* zero; otherwise the retention stays and the request is still answered.
C37_RetentionOnlyByValidSave == [][RetentionBySave]_vars

\* the bypass flags that go with an auth_mode
FlagsOf(mode) ==
    [local_access_bypass |-> mode = "local_bypass", proxy_auth_bypass |-> mode = "no_login"]

\* C38: after saves whose auth_mode is one of login, local_bypass and
\* no_login, the saved flags are the ones of the saved auth_mode, whatever
\* flags the requests carried, and are never both true.
C38_FlagsFollowAuthMode ==
    /\ general_settings.auth_mode \in AuthModes
    /\ general_settings.local_access_bypass
          = FlagsOf(general_settings.auth_mode).local_access_bypass
    /\ general_settings.proxy_auth_bypass
          = FlagsOf(general_settings.auth_mode).proxy_auth_bypass
    /\ ~(general_settings.local_access_bypass /\ general_settings.proxy_auth_bypass)

\* a request with auth_mode no_login and the flags the other way round was
\* saved
C38_Witness ==
    /\ general_request.success
    /\ general_request.data.auth_mode = "no_login"
    /\ general_request.data.local_access_bypass
    /\ ~general_request.data.proxy_auth_bypass
    /\ general_settings.auth_mode = "no_login"
    /\ ~general_settings.local_access_bypass
    /\ general_settings.proxy_auth_bypass

====
